---- MODULE Spec2Model ----
(***************************************************************************)
(* Organization lifecycle of the multi-tenant organization service:        *)
(* OrganizationService.create_organization / update_organization /         *)
(* delete_organization over the master collections `organizations` and     *)
(* `admin_users` and the per-organization tenant collections, together     *)
(* with DatabaseService (collection naming, create, migrate, drop) and     *)
(* AdminService (admin accounts).                                          *)
(*                                                                         *)
(* Every handler is a sequence of store calls; each store call is one      *)
(* step of the calling process, so that intermediate states, partial       *)
(* failures and interleavings are states of the model.  Spec runs one      *)
(* request at a time; SpecConc interleaves the requests of two workers.    *)
(*                                                                         *)
(* Organization names and collection names are sequences of one-character  *)
(* strings, so that sanitize_org_name is computed character by character.  *)
(***************************************************************************)
EXTENDS Integers, Sequences, FiniteSets, TLC

\* ------------------------------------------------------------------ bounds
MaxId == 6          \* ObjectIds of master records (organizations, admins) in use at once
MaxDocs == 1        \* ObjectIds of tenant documents in use at once
MaxTokens == 2      \* access tokens issued and still held by clients
MaxLen == 3         \* length of the names given to the name codec

Procs == {1, 2}     \* request workers; Spec uses worker 1 only
Ids == 1..MaxId
Docs == 1..MaxDocs
Names == { <<"A", "b">>, <<"a", "b">>, <<"c">> }
Emails == {"e1", "e2"}
Passwords == {"p1", "p2"}
NoneVal == "None"   \* Python None for an optional email / password

\* ------------------------------------------------------------------ NameCodec
UpperCase == <<"A","B","C","D","E","F","G","H","I","J","K","L","M",
               "N","O","P","Q","R","S","T","U","V","W","X","Y","Z">>
LowerCase == <<"a","b","c","d","e","f","g","h","i","j","k","l","m",
               "n","o","p","q","r","s","t","u","v","w","x","y","z">>
Digits == {"0","1","2","3","4","5","6","7","8","9"}

\* str.lower() on one character
Lower(c) ==
    IF \E i \in 1..26 : UpperCase[i] = c
    THEN LowerCase[CHOOSE i \in 1..26 : UpperCase[i] = c]
    ELSE c

\* the characters kept by re.sub(r"[^a-z0-9_]", "", s)
Allowed == {LowerCase[i] : i \in 1..26} \cup Digits \cup {"_"}

\* re.sub(r"_+", "_", s)
RECURSIVE CollapseUnderscores(_)
CollapseUnderscores(s) ==
    IF Len(s) <= 1 THEN s
    ELSE IF s[1] = "_" /\ s[2] = "_" THEN CollapseUnderscores(Tail(s))
    ELSE <<s[1]>> \o CollapseUnderscores(Tail(s))

\* s.strip("_")
RECURSIVE StripUnderscores(_)
StripUnderscores(s) ==
    IF s = <<>> THEN s
    ELSE IF s[1] = "_" THEN StripUnderscores(Tail(s))
    ELSE IF s[Len(s)] = "_" THEN StripUnderscores(SubSeq(s, 1, Len(s) - 1))
    ELSE s

\* faulty variant: the underscores stripped before the characters are filtered
sanitize_org_name_StripFirst(name) ==
    LET lowered  == [i \in 1..Len(name) |-> Lower(name[i])]
        replaced == [i \in 1..Len(name) |->
                        IF lowered[i] \in {" ", "-"} THEN "_" ELSE lowered[i]]
        kept     == SelectSeq(StripUnderscores(replaced), LAMBDA c : c \in Allowed)
    IN  CollapseUnderscores(kept)

\* DatabaseService.sanitize_org_name
sanitize_org_name(name) ==
    LET lowered  == [i \in 1..Len(name) |-> Lower(name[i])]
        replaced == [i \in 1..Len(name) |->
                        IF lowered[i] \in {" ", "-"} THEN "_" ELSE lowered[i]]
        kept     == SelectSeq(replaced, LAMBDA c : c \in Allowed)
    IN  StripUnderscores(CollapseUnderscores(kept))

generate_collection_name(org_name) ==
    <<"o", "r", "g", "_">> \o sanitize_org_name(org_name)

\* ------------------------------------------------------------------ PasswordHasher
\* bcrypt is opaque: a hash verifies exactly the password it was made from
hash_password(password) == <<"hash", password>>
verify_password(plain, hashed) == hashed = <<"hash", plain>>

\* ------------------------------------------------------------------ state
VARIABLES
    orgs,       \* db.organizations: set of [id, name, coll]
    admins,     \* db.admin_users: set of [id, email, pw, org]
    colls,      \* tenant collections: collection name -> set of documents
    pc,         \* pc[p]: the store call worker p makes next ("idle", ..., "done")
    op,         \* op[p]: arguments and locals of the request worker p is serving
    res,        \* res[p]: what the request returned or raised
    pre,        \* pre[p]: the store as it was when the request was invoked
    tokens,     \* the access tokens that admin_login has issued
    expired     \* the issued tokens whose "exp" the clock has passed

vars == <<orgs, admins, colls, pc, op, res, pre, tokens, expired>>

NoOrg == [id |-> 0, name |-> <<>>, coll |-> <<>>]
NoAdmin == [id |-> 0, email |-> NoneVal, pw |-> <<>>, org |-> 0]

\* jwt payload and token; an absent payload is decode_token's None
NoPayload == [admin_id |-> <<>>, organization_id |-> <<>>, email |-> NoneVal, exp |-> 0]
NoToken == [payload |-> NoPayload, sig |-> "none"]

NoOp == [kind |-> "none", name |-> <<>>, newName |-> <<>>, email |-> NoneVal,
         pw |-> NoneVal, reqAdmin |-> 0, org |-> NoOrg, coll |-> <<>>,
         admin |-> NoAdmin, docs |-> {}, faults |-> {}, raised |-> {},
         token |-> NoToken, reqOrg |-> 0, stamped |-> {}]

NoView == [id |-> 0, name |-> <<>>, coll |-> <<>>, admin_id |-> 0, admin_email |-> NoneVal]
NoRes == [status |-> "none", org |-> NoView, flag |-> FALSE,
          token |-> NoToken, actor |-> NoAdmin]
NoColls == [c \in {} |-> {}]
NoPre == [orgs |-> {}, admins |-> {}, colls |-> NoColls]

Snapshot == [orgs |-> orgs, admins |-> admins, colls |-> colls]

\* ------------------------------------------------------------------ DocumentStore
\* faulty variants: an index created without unique=True
NonUniqueNameIndex == FALSE
NonUniqueEmailIndex == FALSE

\* db.organizations.create_index([("organization_name", ASCENDING)], unique=True)
UniqueNameIndex == TRUE
\* db.admin_users.create_index([("email", ASCENDING)], unique=True)
UniqueEmailIndex == TRUE

CollExists(cs, c) == c \in DOMAIN cs
CollDocs(cs, c) == IF c \in DOMAIN cs THEN cs[c] ELSE {}

\* the store with collection c holding exactly ds (created if absent)
CollPut(cs, c, ds) == [x \in (DOMAIN cs) \cup {c} |-> IF x = c THEN ds ELSE cs[x]]
\* db.drop_collection(c): no error when c is absent
CollDrop(cs, c) == [x \in (DOMAIN cs) \ {c} |-> cs[x]]

\* find_one: the first match in natural (insertion) order
FirstById(S) == CHOOSE x \in S : \A y \in S : x.id <= y.id

OrgsNamed(os, n) == {o \in os : o.name = n}
OrgsWithId(os, i) == {o \in os : o.id = i}
AdminsOfOrg(as, i) == {a \in as : a.org = i}
AdminsWithEmail(as, e) == {a \in as : a.email = e}
AdminsWithId(as, i) == {a \in as : a.id = i}

\* OrganizationService.validate_organization_exists
validate_organization_exists(os, n) == OrgsNamed(os, n) # {}

\* AdminService.get_admin_by_organization
get_admin_by_organization(as, i) ==
    IF AdminsOfOrg(as, i) = {} THEN NoAdmin ELSE FirstById(AdminsOfOrg(as, i))

\* AdminService.get_admin_by_id
get_admin_by_id(as, i) ==
    IF AdminsWithId(as, i) = {} THEN NoAdmin ELSE FirstById(AdminsWithId(as, i))

\* OrganizationService.get_organization: the record joined with its admin, or NoView
get_organization(os, as, n) ==
    IF OrgsNamed(os, n) = {} THEN NoView
    ELSE LET o == FirstById(OrgsNamed(os, n))
             a == get_admin_by_organization(as, o.id)
         IN  [id |-> o.id, name |-> o.name, coll |-> o.coll,
              admin_id |-> a.id, admin_email |-> a.email]

\* ------------------------------------------------------------------ TokenIssuer
\* str(ObjectId) and ObjectId(str); a string that is no ObjectId raises (0 here)
ObjectIdStr(i) == <<"oid", i>>
ObjectId(str) == IF Len(str) = 2 /\ str[1] = "oid" THEN str[2] ELSE 0

\* admin_login's token_data
token_data(admin) ==
    [admin_id |-> ObjectIdStr(admin.id),
     organization_id |-> ObjectIdStr(admin.org),
     email |-> admin.email]

\* AuthService.create_access_token: "exp" (now + jwt_expiration_hours) is added to the
\* data and jwt.encode signs the payload with the secret key
create_access_token(data, expire) ==
    [payload |-> [admin_id |-> data.admin_id, organization_id |-> data.organization_id,
                  email |-> data.email, exp |-> expire],
     sig |-> "signed"]

\* AuthService.decode_token: the payload, or None on a bad signature or a passed "exp"
\* (exp: the tokens whose "exp" has passed)
decode_token(token, exp) ==
    IF token.sig = "signed" /\ token \notin exp THEN token.payload ELSE NoPayload

\* faulty variant: the password is not verified
authenticate_admin_AnyPassword(as, email, password) ==
    IF AdminsWithEmail(as, email) = {} THEN NoAdmin
    ELSE FirstById(AdminsWithEmail(as, email))

\* AdminService.authenticate_admin
authenticate_admin(as, email, password) ==
    IF AdminsWithEmail(as, email) = {} THEN NoAdmin
    ELSE LET admin == FirstById(AdminsWithEmail(as, email))
         IN  IF ~verify_password(password, admin.pw) THEN NoAdmin ELSE admin

\* faulty variant: every resolved admin is let through
verify_admin_organization_Always(admin, organization_id) == TRUE

\* middleware verify_admin_organization: True, or HTTP 403 (FALSE here)
verify_admin_organization(admin, organization_id) == ~(admin.org # organization_id)

\* ------------------------------------------------------------------ helpers
Busy(p) == pc[p] \notin {"idle", "done"}

Finish(p, status, view, flag) ==
    /\ pc' = [pc EXCEPT ![p] = "done"]
    /\ res' = [res EXCEPT ![p] = [status |-> status, org |-> view, flag |-> flag,
                                  token |-> NoToken, actor |-> NoAdmin]]
    /\ UNCHANGED expired

\* a step that only moves on, recording locals
Step(p, l, o) ==
    /\ pc' = [pc EXCEPT ![p] = l]
    /\ op' = [op EXCEPT ![p] = o]
    /\ UNCHANGED <<res, tokens, expired>>

\* a step that returns or raises
Exit(p, o, status, view, flag) ==
    /\ op' = [op EXCEPT ![p] = o]
    /\ Finish(p, status, view, flag)
    /\ UNCHANGED tokens

\* stamped: the admin documents whose "updated_at" the request has set;
\* faults: the store calls of the request that were made to fail;
\* raised: the errors the request's own checks and the store's indexes raised
Fault(o, f) == [o EXCEPT !.faults = @ \cup {f}]
Raise(o, e) == [o EXCEPT !.raised = @ \cup {e}]
Stamp(o, as, id) == [o EXCEPT !.stamped = @ \cup {a.id : a \in AdminsWithId(as, id)}]

\* worker p takes a request; snap is what is remembered of the store at the call
\* (Snapshot, or NoPre where no property looks back).  A request goes to worker 1
\* whenever worker 1 is free.
Invoke(p, o, l, snap) ==
    /\ pc[p] = "idle"
    /\ p = 1 \/ pc[1] # "idle"
    /\ pc' = [pc EXCEPT ![p] = l]
    /\ op' = [op EXCEPT ![p] = o]
    /\ pre' = [pre EXCEPT ![p] = snap]
    /\ UNCHANGED <<orgs, admins, colls, res, tokens, expired>>

\* ObjectId(): an id that no record, local, result or snapshot holds.  Such an id cannot
\* be told from one never handed out, so the smallest one is taken.
IdsOf(os, as) == {o.id : o \in os} \cup {a.id : a \in as} \cup {a.org : a \in as}

UsedIds ==
    IdsOf(orgs, admins) \cup
    UNION {IdsOf(pre[p].orgs, pre[p].admins) \cup
           {op[p].org.id, op[p].admin.id, op[p].admin.org, op[p].reqAdmin,
            res[p].org.id, res[p].org.admin_id,
            op[p].reqOrg, res[p].actor.id, res[p].actor.org} : p \in Procs} \cup
    UNION {{ObjectId(t.payload.admin_id), ObjectId(t.payload.organization_id)} :
              t \in tokens}

FreeIds == Ids \ UsedIds
FreshId == CHOOSE i \in FreeIds : \A j \in FreeIds : i <= j

UsedDocs ==
    UNION {colls[c] : c \in DOMAIN colls} \cup
    UNION {op[p].docs \cup UNION {pre[p].colls[c] : c \in DOMAIN pre[p].colls} : p \in Procs}

FreeDocs == Docs \ UsedDocs
FreshDoc == CHOOSE d \in FreeDocs : \A e \in FreeDocs : d <= e

\* the ObjectIds that the requests in flight have still to draw
PendingIds ==
    LET need(q) == IF ~Busy(q) THEN 0
                   ELSE IF op[q].kind = "create" THEN (IF op[q].org = NoOrg THEN 2 ELSE 1)
                   ELSE IF op[q].kind = "createAccount" THEN 1
                   ELSE 0
    IN  need(1) + need(2)

Init ==
    /\ orgs = {}
    /\ admins = {}
    /\ colls = NoColls
    /\ pc = [p \in Procs |-> "idle"]
    /\ op = [p \in Procs |-> NoOp]
    /\ res = [p \in Procs |-> NoRes]
    /\ pre = [p \in Procs |-> NoPre]
    /\ tokens = {}
    /\ expired = {}

\* the request has returned; the worker takes the next one
Return(p) ==
    /\ pc[p] = "done"
    /\ pc' = [pc EXCEPT ![p] = "idle"]
    /\ op' = [op EXCEPT ![p] = NoOp]
    /\ res' = [res EXCEPT ![p] = NoRes]
    /\ pre' = [pre EXCEPT ![p] = NoPre]
    /\ UNCHANGED <<orgs, admins, colls, tokens, expired>>

\* ------------------------------------------------------------------ DatabaseService
\* create_dynamic_collection: CollectionInvalid (already exists) is caught
create_dynamic_collection(cs, c) ==
    IF CollExists(cs, c) THEN cs ELSE CollPut(cs, c, {})

\* drop_collection: any exception of the store is caught (returns False)
drop_collection(cs, c, fail) ==
    IF fail THEN cs ELSE CollDrop(cs, c)

\* ------------------------------------------------------------------ create_organization
\* An argument is fixed at the step that first reads it: the name at the call, the
\* admin email and password when create_admin reads them.
StartCreate(p, n, snap) ==
    /\ Cardinality(FreeIds) >= PendingIds + 2
    /\ Invoke(p, [NoOp EXCEPT !.kind = "create", !.name = n], "c_check", snap)

\* faulty variant: create_organization without its existence check
CreateCheck_Unchecked(p) ==
    /\ pc[p] = "c_check"
    /\ Step(p, "c_insert",
            [op[p] EXCEPT !.coll = generate_collection_name(op[p].name)])
    /\ UNCHANGED <<orgs, admins, colls, pre>>

\* validate_organization_exists, then generate_collection_name
CreateCheck(p) ==
    /\ pc[p] = "c_check"
    /\ IF validate_organization_exists(orgs, op[p].name)
       THEN Exit(p, op[p], "DuplicateOrganization", NoView, FALSE)
       ELSE Step(p, "c_insert",
                 [op[p] EXCEPT !.coll = generate_collection_name(op[p].name)])
    /\ UNCHANGED <<orgs, admins, colls, pre>>

\* db.organizations.insert_one(org_doc), outside the try block
CreateInsertOrg(p) ==
    /\ pc[p] = "c_insert"
    /\ IF UniqueNameIndex /\ OrgsNamed(orgs, op[p].name) # {}
       THEN /\ Exit(p, Raise(op[p], "DuplicateNameKey"), "StorageFailure", NoView, FALSE)
            /\ UNCHANGED orgs
       ELSE LET o == [id |-> FreshId, name |-> op[p].name, coll |-> op[p].coll]
            IN  /\ orgs' = orgs \cup {o}
                /\ Step(p, "c_coll", [op[p] EXCEPT !.org = o])
    /\ UNCHANGED <<admins, colls, pre>>

\* faulty variant: the admin account is created without the collection
CreateCollection_Skipped(p, fail) ==
    /\ pc[p] = "c_coll"
    /\ IF fail
       THEN Step(p, "c_rb_org", Fault(op[p], "create_collection"))
       ELSE Step(p, "c_admin_check", op[p])
    /\ UNCHANGED <<orgs, admins, colls, pre>>

\* DatabaseService.create_dynamic_collection(collection_name)
CreateCollection(p, fail) ==
    /\ pc[p] = "c_coll"
    /\ IF fail
       THEN /\ Step(p, "c_rb_org", Fault(op[p], "create_collection"))
            /\ UNCHANGED colls
       ELSE /\ colls' = create_dynamic_collection(colls, op[p].coll)
            /\ Step(p, "c_admin_check", op[p])
    /\ UNCHANGED <<orgs, admins, pre>>

\* AdminService.create_admin: db.admin_users.find_one({"email": email})
CreateAdminCheck(p, e) ==
    /\ pc[p] = "c_admin_check"
    /\ IF AdminsWithEmail(admins, e) # {}
       THEN Step(p, "c_rb_org", Raise([op[p] EXCEPT !.email = e], "DuplicateEmail"))
       ELSE Step(p, "c_admin_insert", [op[p] EXCEPT !.email = e])
    /\ UNCHANGED <<orgs, admins, colls, pre>>

\* AdminService.create_admin: db.admin_users.insert_one(admin_doc), then return org_doc
CreateAdminInsert(p, w, fail) ==
    /\ pc[p] = "c_admin_insert"
    /\ IF fail \/ (UniqueEmailIndex /\ AdminsWithEmail(admins, op[p].email) # {})
       THEN /\ Step(p, "c_rb_org",
                    IF fail THEN Fault([op[p] EXCEPT !.pw = w], "insert_admin")
                    ELSE Raise([op[p] EXCEPT !.pw = w], "DuplicateEmailKey"))
            /\ UNCHANGED admins
       ELSE LET a == [id |-> FreshId, email |-> op[p].email,
                      pw |-> hash_password(w), org |-> op[p].org.id]
            IN  /\ admins' = admins \cup {a}
                /\ Exit(p, [op[p] EXCEPT !.admin = a, !.pw = w], "ok",
                        [id |-> op[p].org.id, name |-> op[p].org.name,
                         coll |-> op[p].org.coll, admin_id |-> a.id,
                         admin_email |-> op[p].email], TRUE)
    /\ UNCHANGED <<orgs, colls, pre>>

\* faulty variant: the rollback leaves the organization record behind
CreateRollbackOrg_Skipped(p) ==
    /\ pc[p] = "c_rb_org"
    /\ Step(p, "c_rb_drop", op[p])
    /\ UNCHANGED <<orgs, admins, colls, pre>>

\* rollback: db.organizations.delete_one({"_id": organization_id})
CreateRollbackOrg(p) ==
    /\ pc[p] = "c_rb_org"
    /\ orgs' = orgs \ OrgsWithId(orgs, op[p].org.id)
    /\ Step(p, "c_rb_drop", op[p])
    /\ UNCHANGED <<admins, colls, pre>>

\* rollback: DatabaseService.drop_collection(collection_name), then raise
CreateRollbackDrop(p, fail) ==
    /\ pc[p] = "c_rb_drop"
    /\ colls' = drop_collection(colls, op[p].coll, fail)
    /\ Exit(p, IF fail THEN Fault(op[p], "drop") ELSE op[p],
            "ProvisioningFailed", NoView, FALSE)
    /\ UNCHANGED <<orgs, admins, pre>>

\* ------------------------------------------------------------------ delete_organization
\* the requesting admin id is fixed when get_admin_by_id reads it
StartDelete(p, n, snap) ==
    Invoke(p, [NoOp EXCEPT !.kind = "delete", !.name = n], "d_find", snap)

\* db.organizations.find_one({"organization_name": organization_name})
DeleteFind(p) ==
    /\ pc[p] = "d_find"
    /\ IF OrgsNamed(orgs, op[p].name) = {}
       THEN Exit(p, op[p], "NotFound", NoView, FALSE)
       ELSE Step(p, "d_auth", [op[p] EXCEPT !.org = FirstById(OrgsNamed(orgs, op[p].name))])
    /\ UNCHANGED <<orgs, admins, colls, pre>>

\* faulty variant: any existing admin may delete
NotOwningAdmin_AnyAdmin(admin, org) == admin = NoAdmin

\* `if not admin or admin["organization_id"] != org["_id"]`
NotOwningAdmin(admin, org) == admin = NoAdmin \/ admin.org # org.id

\* AdminService.get_admin_by_id(admin_id) and the ownership test
DeleteAuthorize(p, a) ==
    /\ pc[p] = "d_auth"
    /\ LET admin == get_admin_by_id(admins, a)
       IN  IF NotOwningAdmin(admin, op[p].org)
           THEN Exit(p, [op[p] EXCEPT !.reqAdmin = a], "Unauthorized", NoView, FALSE)
           ELSE Step(p, "d_drop", [op[p] EXCEPT !.reqAdmin = a, !.admin = admin])
    /\ UNCHANGED <<orgs, admins, colls, pre>>

\* faulty variant: the collection is not dropped before the admin accounts go
DeleteDropCollection_Skipped(p, fail) ==
    /\ pc[p] = "d_drop"
    /\ Step(p, "d_admins", IF fail THEN Fault(op[p], "drop") ELSE op[p])
    /\ UNCHANGED <<orgs, admins, colls, pre>>

\* DatabaseService.drop_collection(org["collection_name"])
DeleteDropCollection(p, fail) ==
    /\ pc[p] = "d_drop"
    /\ colls' = drop_collection(colls, op[p].org.coll, fail)
    /\ Step(p, "d_admins", IF fail THEN Fault(op[p], "drop") ELSE op[p])
    /\ UNCHANGED <<orgs, admins, pre>>

\* faulty variant: the admin accounts are left behind
DeleteAdmins_Skipped(p) ==
    /\ pc[p] = "d_admins"
    /\ Step(p, "d_org", op[p])
    /\ UNCHANGED <<orgs, admins, colls, pre>>

\* AdminService.delete_admins_by_organization(org["_id"])
DeleteAdmins(p) ==
    /\ pc[p] = "d_admins"
    /\ admins' = admins \ AdminsOfOrg(admins, op[p].org.id)
    /\ Step(p, "d_org", op[p])
    /\ UNCHANGED <<orgs, colls, pre>>

\* faulty variant: the organization record is left behind
DeleteOrg_Skipped(p) ==
    /\ pc[p] = "d_org"
    /\ Exit(p, op[p], "ok", NoView, TRUE)
    /\ UNCHANGED <<orgs, admins, colls, pre>>

\* db.organizations.delete_one({"_id": org["_id"]}); return deleted_count > 0
DeleteOrg(p) ==
    /\ pc[p] = "d_org"
    /\ orgs' = orgs \ OrgsWithId(orgs, op[p].org.id)
    /\ Exit(p, op[p], "ok", NoView, OrgsWithId(orgs, op[p].org.id) # {})
    /\ UNCHANGED <<admins, colls, pre>>

\* ------------------------------------------------------------------ tenant
\* a tenant writes a new document through get_collection_handle(collection_name)
TenantInsert(c) ==
    /\ FreeDocs # {}
    /\ CollExists(colls, c)
    /\ colls' = CollPut(colls, c, colls[c] \cup {FreshDoc})
    /\ UNCHANGED <<orgs, admins, pc, op, res, pre, tokens, expired>>

\* ------------------------------------------------------------------ update_organization
\* target_collection.insert_many(documents): the possible contents of the target
\* afterwards.  The insert is ordered and stops at the first error (a duplicate _id or
\* a failure of the store), leaving the documents before it inserted.
insert_many(target, docs, fail) ==
    IF ~fail /\ docs \cap target = {}
    THEN {target \cup docs}
    ELSE {target \cup S : S \in (SUBSET (docs \ target)) \ {docs}}

\* AdminService.update_admin_credentials: another admin holds the email
\* faulty variant: the find_one without {"_id": {"$ne": admin_id}}
EmailHeldByOther_AnyHolder(as, email, id) == \E a \in as : a.email = email

\* db.admin_users.find_one({"email": email, "_id": {"$ne": admin_id}})
EmailHeldByOther(as, email, id) == \E a \in as : a.email = email /\ a.id # id

\* faulty variant: update_doc without the password hash
SetCredentials_EmailOnly(a, email, password) ==
    [a EXCEPT !.email = IF email # NoneVal THEN email ELSE @]

\* AdminService.update_admin_credentials: the $set document applied to one admin
SetCredentials(a, email, password) ==
    [a EXCEPT !.email = IF email # NoneVal THEN email ELSE @,
              !.pw = IF password # NoneVal THEN hash_password(password) ELSE @]

\* faulty variant: update_doc without the new collection name
SetOrganization_NameOnly(os, id, name, coll) ==
    {IF o.id = id THEN [o EXCEPT !.name = name] ELSE o : o \in os}

\* db.organizations.update_one({"_id": org["_id"]}, {"$set": update_doc})
SetOrganization(os, id, name, coll) ==
    {IF o.id = id THEN [o EXCEPT !.name = name, !.coll = coll] ELSE o : o \in os}

\* the optional new credentials are fixed when `if admin_email or admin_password` reads them
StartRename(p, old, new, snap) ==
    Invoke(p, [NoOp EXCEPT !.kind = "rename", !.name = old, !.newName = new], "u_find", snap)

\* db.organizations.find_one({"organization_name": old_organization_name})
RenameFind(p) ==
    /\ pc[p] = "u_find"
    /\ IF OrgsNamed(orgs, op[p].name) = {}
       THEN Exit(p, op[p], "NotFound", NoView, FALSE)
       ELSE Step(p, "u_check", [op[p] EXCEPT !.org = FirstById(OrgsNamed(orgs, op[p].name))])
    /\ UNCHANGED <<orgs, admins, colls, pre>>

\* faulty variant: update_organization without the check of the new name
RenameCheck_Unchecked(p) ==
    /\ pc[p] = "u_check"
    /\ Step(p, "u_create",
            [op[p] EXCEPT !.coll = generate_collection_name(op[p].newName)])
    /\ UNCHANGED <<orgs, admins, colls, pre>>

\* the new name is free (unless unchanged), then generate_collection_name
RenameCheck(p) ==
    /\ pc[p] = "u_check"
    /\ IF op[p].name # op[p].newName /\ validate_organization_exists(orgs, op[p].newName)
       THEN Exit(p, op[p], "DuplicateOrganization", NoView, FALSE)
       ELSE Step(p, "u_create",
                 [op[p] EXCEPT !.coll = generate_collection_name(op[p].newName)])
    /\ UNCHANGED <<orgs, admins, colls, pre>>

\* DatabaseService.create_dynamic_collection(new_collection_name)
RenameCreateCollection(p, fail) ==
    /\ pc[p] = "u_create"
    /\ IF fail
       THEN /\ Step(p, "u_comp", Fault(op[p], "create_collection"))
            /\ UNCHANGED colls
       ELSE /\ colls' = create_dynamic_collection(colls, op[p].coll)
            /\ Step(p, "u_exists", op[p])
    /\ UNCHANGED <<orgs, admins, pre>>

\* DatabaseService.collection_exists(old_collection_name)
RenameCollectionExists(p) ==
    /\ pc[p] = "u_exists"
    /\ Step(p, IF CollExists(colls, op[p].org.coll) THEN "u_read" ELSE "u_update", op[p])
    /\ UNCHANGED <<orgs, admins, colls, pre>>

\* migrate_collection_data: documents = list(source_collection.find());
\* an exception is caught and False returned, which the caller ignores
RenameMigrateRead(p, fail) ==
    /\ pc[p] = "u_read"
    /\ IF fail
       THEN Step(p, "u_update", Fault(op[p], "migrate_read"))
       ELSE LET docs == CollDocs(colls, op[p].org.coll)
            IN  Step(p, IF docs = {} THEN "u_update" ELSE "u_write",
                     [op[p] EXCEPT !.docs = docs])
    /\ UNCHANGED <<orgs, admins, colls, pre>>

\* migrate_collection_data: target_collection.insert_many(documents);
\* an exception is caught and False returned, which the caller ignores
RenameMigrateWrite(p, fail) ==
    /\ pc[p] = "u_write"
    /\ LET target == CollDocs(colls, op[p].coll)
       IN  \E after \in insert_many(target, op[p].docs, fail) :
             /\ colls' = IF after = {} /\ ~CollExists(colls, op[p].coll)
                         THEN colls
                         ELSE CollPut(colls, op[p].coll, after)
             /\ Step(p, "u_update",
                     IF fail THEN Fault(op[p], "migrate_write")
                     ELSE IF op[p].docs \cap target # {} THEN Raise(op[p], "BulkWrite")
                     ELSE op[p])
    /\ UNCHANGED <<orgs, admins, pre>>

\* db.organizations.update_one({"_id": org["_id"]}, {"$set": update_doc})
RenameUpdateOrg(p) ==
    /\ pc[p] = "u_update"
    /\ IF /\ UniqueNameIndex
          /\ OrgsWithId(orgs, op[p].org.id) # {}
          /\ \E o \in orgs : o.name = op[p].newName /\ o.id # op[p].org.id
       THEN /\ Step(p, "u_comp", Raise(op[p], "DuplicateNameKey"))
            /\ UNCHANGED orgs
       ELSE /\ orgs' = SetOrganization(orgs, op[p].org.id, op[p].newName, op[p].coll)
            /\ Step(p, "u_drop", op[p])
    /\ UNCHANGED <<admins, colls, pre>>

\* faulty variant: a failed drop of the old collection is raised to the except block
RenameDropOld_Escalates(p, e, w, fail) ==
    /\ pc[p] = "u_drop"
    /\ colls' = drop_collection(colls, op[p].org.coll, fail)
    /\ Step(p, IF fail THEN "u_comp"
               ELSE IF e # NoneVal \/ w # NoneVal THEN "u_admin" ELSE "u_get",
            IF fail THEN Fault([op[p] EXCEPT !.email = e, !.pw = w], "drop")
            ELSE [op[p] EXCEPT !.email = e, !.pw = w])
    /\ UNCHANGED <<orgs, admins, pre>>

\* DatabaseService.drop_collection(old_collection_name)
RenameDropOld(p, e, w, fail) ==
    /\ pc[p] = "u_drop"
    /\ colls' = drop_collection(colls, op[p].org.coll, fail)
    /\ Step(p, IF e # NoneVal \/ w # NoneVal THEN "u_admin" ELSE "u_get",
            IF fail THEN Fault([op[p] EXCEPT !.email = e, !.pw = w], "drop")
            ELSE [op[p] EXCEPT !.email = e, !.pw = w])
    /\ UNCHANGED <<orgs, admins, pre>>

\* AdminService.get_admin_by_organization(org["_id"])
RenameFindAdmin(p) ==
    /\ pc[p] = "u_admin"
    /\ LET admin == get_admin_by_organization(admins, op[p].org.id)
       IN  Step(p, IF admin = NoAdmin THEN "u_get"
                   ELSE IF op[p].email # NoneVal THEN "u_cred_check" ELSE "u_cred_update",
                [op[p] EXCEPT !.admin = admin])
    /\ UNCHANGED <<orgs, admins, colls, pre>>

\* update_admin_credentials: find_one({"email": email, "_id": {"$ne": admin_id}})
RenameCredCheck(p) ==
    /\ pc[p] = "u_cred_check"
    /\ IF EmailHeldByOther(admins, op[p].email, op[p].admin.id)
       THEN Step(p, "u_comp", Raise(op[p], "DuplicateEmail"))
       ELSE Step(p, "u_cred_update", op[p])
    /\ UNCHANGED <<orgs, admins, colls, pre>>

\* update_admin_credentials: db.admin_users.update_one({"_id": admin_id}, {"$set": ...})
RenameCredUpdate(p) ==
    /\ pc[p] = "u_cred_update"
    /\ IF /\ UniqueEmailIndex
          /\ op[p].email # NoneVal
          /\ AdminsWithId(admins, op[p].admin.id) # {}
          /\ EmailHeldByOther(admins, op[p].email, op[p].admin.id)
       THEN /\ Step(p, "u_comp", Raise(op[p], "DuplicateEmailKey"))
            /\ UNCHANGED admins
       ELSE /\ admins' = {IF a.id = op[p].admin.id
                          THEN SetCredentials(a, op[p].email, op[p].pw) ELSE a : a \in admins}
            /\ Step(p, "u_get", Stamp(op[p], admins, op[p].admin.id))
    /\ UNCHANGED <<orgs, colls, pre>>

\* OrganizationService.get_organization(new_organization_name)
RenameGet(p) ==
    /\ pc[p] = "u_get"
    /\ Exit(p, op[p], "ok", get_organization(orgs, admins, op[p].newName), TRUE)
    /\ UNCHANGED <<orgs, admins, colls, pre>>

\* except: DatabaseService.drop_collection(new_collection_name), then raise
RenameCompensate(p, fail) ==
    /\ pc[p] = "u_comp"
    /\ colls' = drop_collection(colls, op[p].coll, fail)
    /\ Exit(p, IF fail THEN Fault(op[p], "drop_new") ELSE op[p],
            "UpdateFailed", NoView, FALSE)
    /\ UNCHANGED <<orgs, admins, pre>>

\* ------------------------------------------------------------------ AdminService, called directly
StartCreateAccount(p, o, snap) ==
    /\ Cardinality(FreeIds) >= PendingIds + 1
    /\ Invoke(p, [NoOp EXCEPT !.kind = "createAccount", !.org = [NoOrg EXCEPT !.id = o]],
              "a_check", snap)

\* create_admin: db.admin_users.find_one({"email": email})
CreateAccountCheck(p, e) ==
    /\ pc[p] = "a_check"
    /\ IF AdminsWithEmail(admins, e) # {}
       THEN Exit(p, Raise([op[p] EXCEPT !.email = e], "DuplicateEmail"),
                 "DuplicateEmail", NoView, FALSE)
       ELSE Step(p, "a_insert", [op[p] EXCEPT !.email = e])
    /\ UNCHANGED <<orgs, admins, colls, pre>>

\* create_admin: db.admin_users.insert_one(admin_doc)
CreateAccountInsert(p, w) ==
    /\ pc[p] = "a_insert"
    /\ IF UniqueEmailIndex /\ AdminsWithEmail(admins, op[p].email) # {}
       THEN /\ Exit(p, Raise([op[p] EXCEPT !.pw = w], "DuplicateEmailKey"),
                    "StorageFailure", NoView, FALSE)
            /\ UNCHANGED admins
       ELSE LET a == [id |-> FreshId, email |-> op[p].email,
                      pw |-> hash_password(w), org |-> op[p].org.id]
            IN  /\ admins' = admins \cup {a}
                /\ Exit(p, [op[p] EXCEPT !.admin = a, !.pw = w], "ok", NoView, TRUE)
    /\ UNCHANGED <<orgs, colls, pre>>

StartUpdateCredentials(p, a, snap) ==
    Invoke(p, [NoOp EXCEPT !.kind = "updateCredentials", !.reqAdmin = a], "k_check", snap)

\* update_admin_credentials: `if email:` and the find_one for another holder
UpdateCredentialsCheck(p, e) ==
    /\ pc[p] = "k_check"
    /\ IF e # NoneVal /\ EmailHeldByOther(admins, e, op[p].reqAdmin)
       THEN Exit(p, Raise([op[p] EXCEPT !.email = e], "DuplicateEmail"),
                 "DuplicateEmail", NoView, FALSE)
       ELSE Step(p, "k_update", [op[p] EXCEPT !.email = e])
    /\ UNCHANGED <<orgs, admins, colls, pre>>

\* faulty variant: update_one is called with the document holding "updated_at" alone
UpdateCredentialsWrite_NoLengthCheck(p, w) ==
    /\ pc[p] = "k_update"
    /\ IF /\ UniqueEmailIndex
          /\ op[p].email # NoneVal
          /\ AdminsWithId(admins, op[p].reqAdmin) # {}
          /\ EmailHeldByOther(admins, op[p].email, op[p].reqAdmin)
       THEN /\ Exit(p, Raise([op[p] EXCEPT !.pw = w], "DuplicateEmailKey"),
                    "StorageFailure", NoView, FALSE)
            /\ UNCHANGED admins
       ELSE /\ admins' = {IF a.id = op[p].reqAdmin
                          THEN SetCredentials(a, op[p].email, w) ELSE a : a \in admins}
            /\ Exit(p, Stamp([op[p] EXCEPT !.pw = w], admins, op[p].reqAdmin), "ok", NoView,
                    AdminsWithId(admins, op[p].reqAdmin) # {})
    /\ UNCHANGED <<orgs, colls, pre>>

\* update_admin_credentials: `if len(update_doc) == 1: return False`, else update_one
UpdateCredentialsWrite(p, w) ==
    /\ pc[p] = "k_update"
    /\ IF op[p].email = NoneVal /\ w = NoneVal
       THEN /\ Exit(p, [op[p] EXCEPT !.pw = w], "ok", NoView, FALSE)
            /\ UNCHANGED admins
       ELSE IF /\ UniqueEmailIndex
               /\ op[p].email # NoneVal
               /\ AdminsWithId(admins, op[p].reqAdmin) # {}
               /\ EmailHeldByOther(admins, op[p].email, op[p].reqAdmin)
       THEN /\ Exit(p, Raise([op[p] EXCEPT !.pw = w], "DuplicateEmailKey"),
                    "StorageFailure", NoView, FALSE)
            /\ UNCHANGED admins
       ELSE /\ admins' = {IF a.id = op[p].reqAdmin
                          THEN SetCredentials(a, op[p].email, w) ELSE a : a \in admins}
            /\ Exit(p, Stamp([op[p] EXCEPT !.pw = w], admins, op[p].reqAdmin), "ok", NoView,
                    AdminsWithId(admins, op[p].reqAdmin) # {})
    /\ UNCHANGED <<orgs, colls, pre>>

\* ------------------------------------------------------------------ specifications
\* F: the outcomes injected into the store calls that may fail ({FALSE}: none fails)
\* ------------------------------------------------------------------ admin_login
StartLogin(p, e, w, snap) ==
    /\ Cardinality(tokens) < MaxTokens
    /\ Invoke(p, [NoOp EXCEPT !.kind = "login", !.email = e, !.pw = w], "l_auth", snap)

\* authenticate_admin, then the token is made of the admin document; a later login
\* is at a later time, so its token carries a later "exp"
LoginAuthenticate(p) ==
    /\ pc[p] = "l_auth"
    /\ LET admin == authenticate_admin(admins, op[p].email, op[p].pw)
           token == create_access_token(token_data(admin), Cardinality(tokens) + 1)
       IN  IF admin = NoAdmin
           THEN Exit(p, op[p], "InvalidCredentials", NoView, FALSE)
           ELSE /\ op' = [op EXCEPT ![p] = [op[p] EXCEPT !.admin = admin]]
                /\ pc' = [pc EXCEPT ![p] = "done"]
                /\ res' = [res EXCEPT ![p] = [status |-> "ok", org |-> NoView, flag |-> TRUE,
                                              token |-> token, actor |-> admin]]
                /\ tokens' = tokens \cup {token}
                /\ UNCHANGED expired
    /\ UNCHANGED <<orgs, admins, colls, pre>>

\* the clock passes the "exp" of an issued token
Expire(t) ==
    /\ t \in tokens \ expired
    /\ \A u \in tokens : u.payload.exp < t.payload.exp => u \in expired
    /\ expired' = expired \cup {t}
    /\ UNCHANGED <<orgs, admins, colls, pc, op, res, pre, tokens>>

\* ------------------------------------------------------------------ get_current_admin
\* a request carrying a bearer token
StartResolve(p, t, snap) ==
    Invoke(p, [NoOp EXCEPT !.kind = "resolve", !.token = t], "r_resolve", snap)

\* a request carrying a bearer token for an organization-scoped resource
StartAuthorize(p, t, snap) ==
    Invoke(p, [NoOp EXCEPT !.kind = "authorize", !.token = t], "r_resolve", snap)

\* get_current_admin: decode_token, ObjectId(admin_id), get_admin_by_id
ResolveActor(p) ==
    /\ pc[p] = "r_resolve"
    /\ LET payload == decode_token(op[p].token, expired)
           admin == get_admin_by_id(admins, ObjectId(payload.admin_id))
       IN  IF payload = NoPayload \/ payload.admin_id = <<>> \/ ObjectId(payload.admin_id) = 0
           THEN Exit(p, Raise(op[p], "JWTError"), "InvalidToken", NoView, FALSE)
           ELSE IF admin = NoAdmin
           THEN Exit(p, op[p], "UnknownActor", NoView, FALSE)
           ELSE IF op[p].kind = "authorize"
           THEN Step(p, "a_verify", [op[p] EXCEPT !.admin = admin])
           ELSE /\ op' = [op EXCEPT ![p] = [op[p] EXCEPT !.admin = admin]]
                /\ pc' = [pc EXCEPT ![p] = "done"]
                /\ res' = [res EXCEPT ![p] = [status |-> "ok", org |-> NoView, flag |-> TRUE,
                                              token |-> op[p].token, actor |-> admin]]
                /\ UNCHANGED <<tokens, expired>>
    /\ UNCHANGED <<orgs, admins, colls, pre>>

\* verify_admin_organization(admin, organization_id)
VerifyOrganization(p, o) ==
    /\ pc[p] = "a_verify"
    /\ LET o2 == [op[p] EXCEPT !.reqOrg = o]
       IN  IF verify_admin_organization(op[p].admin, o)
           THEN /\ op' = [op EXCEPT ![p] = o2]
                /\ pc' = [pc EXCEPT ![p] = "done"]
                /\ res' = [res EXCEPT ![p] = [status |-> "ok", org |-> NoView, flag |-> TRUE,
                                              token |-> op[p].token, actor |-> op[p].admin]]
                /\ UNCHANGED <<tokens, expired>>
           ELSE Exit(p, o2, "Forbidden", NoView, FALSE)
    /\ UNCHANGED <<orgs, admins, colls, pre>>

\* the bearer tokens a client can present: issued ones, and ones it signed itself
Presentable == tokens \cup {[t EXCEPT !.sig = "forged"] : t \in tokens}

Auth(p) ==
    \/ \E e \in Emails, w \in Passwords : StartLogin(p, e, w, NoPre)
    \/ LoginAuthenticate(p)
    \/ \E t \in Presentable : StartResolve(p, t, NoPre)
    \/ \E t \in Presentable : StartAuthorize(p, t, NoPre)
    \/ ResolveActor(p)
    \/ \E o \in {x.id : x \in orgs} : VerifyOrganization(p, o)

Create(p, F) ==
    \/ \E n \in Names : StartCreate(p, n, Snapshot)
    \/ CreateCheck(p)
    \/ CreateInsertOrg(p)
    \/ \E fail \in F : CreateCollection(p, fail)
    \/ \E e \in Emails : CreateAdminCheck(p, e)
    \/ \E w \in Passwords, fail \in F : CreateAdminInsert(p, w, fail)
    \/ CreateRollbackOrg(p)
    \/ \E fail \in F : CreateRollbackDrop(p, fail)

Rename(p, F) ==
    \/ \E old \in Names, new \in Names : StartRename(p, old, new, Snapshot)
    \/ RenameFind(p)
    \/ RenameCheck(p)
    \/ \E fail \in F : RenameCreateCollection(p, fail)
    \/ RenameCollectionExists(p)
    \/ \E fail \in F : RenameMigrateRead(p, fail)
    \/ \E fail \in F : RenameMigrateWrite(p, fail)
    \/ RenameUpdateOrg(p)
    \/ \E e \in Emails \cup {NoneVal}, w \in Passwords \cup {NoneVal},
          fail \in F : RenameDropOld(p, e, w, fail)
    \/ RenameFindAdmin(p)
    \/ RenameCredCheck(p)
    \/ RenameCredUpdate(p)
    \/ RenameGet(p)
    \/ \E fail \in F : RenameCompensate(p, fail)

Delete(p, F) ==
    \/ \E n \in Names : StartDelete(p, n, Snapshot)
    \/ DeleteFind(p)
    \/ \E a \in {0} \cup {x.id : x \in admins} : DeleteAuthorize(p, a)
    \/ \E fail \in F : DeleteDropCollection(p, fail)
    \/ DeleteAdmins(p)
    \/ DeleteOrg(p)

Tenant == \E c \in DOMAIN colls : TenantInsert(c)

Steady == \A p \in Procs : pc[p] = "idle"

\* one request at a time, served by worker 1
Next ==
    \/ Create(1, BOOLEAN)
    \/ Rename(1, BOOLEAN)
    \/ Delete(1, BOOLEAN)
    \/ Return(1)
    \/ (Steady /\ Tenant)

Spec == Init /\ [][Next]_vars

\* ------------------------------------------------------------------ racing requests
\* the organization record and the admin account that a successful create leaves
OrgRecord(i, n) == [id |-> i, name |-> n, coll |-> generate_collection_name(n)]
AdminRecord(i, e, w, o) == [id |-> i, email |-> e, pw |-> hash_password(w), org |-> o]

\* the store after zero, one or two successful creates
Provisioned ==
    {[orgs |-> {}, admins |-> {}, colls |-> NoColls]}
    \cup
    {[orgs |-> {OrgRecord(1, n)},
      admins |-> {AdminRecord(2, e, "p1", 1)},
      colls |-> [c \in {generate_collection_name(n)} |-> {}]] :
        n \in Names, e \in Emails}
    \cup
    {[orgs |-> {OrgRecord(1, nn[1]), OrgRecord(3, nn[2])},
      admins |-> {AdminRecord(2, ee[1], "p1", 1), AdminRecord(4, ee[2], "p1", 3)},
      colls |-> [c \in {generate_collection_name(nn[1]), generate_collection_name(nn[2])}
                   |-> {}]] :
        nn \in {x \in Names \X Names : x[1] # x[2]},
        ee \in {x \in Emails \X Emails : x[1] # x[2]}}

InitConc ==
    /\ \E st \in Provisioned :
         /\ orgs = st.orgs
         /\ admins = st.admins
         /\ colls = st.colls
    /\ pc = [p \in Procs |-> "idle"]
    /\ op = [p \in Procs |-> NoOp]
    /\ res = [p \in Procs |-> NoRes]
    /\ pre = [p \in Procs |-> NoPre]
    /\ tokens = {}
    /\ expired = {}

\* a step of worker p's create, rename or delete, no store call failing
Lifecycle(p) ==
    \/ \E n \in Names : StartCreate(p, n, NoPre)
    \/ CreateCheck(p)
    \/ CreateInsertOrg(p)
    \/ CreateCollection(p, FALSE)
    \/ \E e \in Emails : CreateAdminCheck(p, e)
    \/ CreateAdminInsert(p, "p1", FALSE)
    \/ CreateRollbackOrg(p)
    \/ CreateRollbackDrop(p, FALSE)
    \/ \E old \in Names, new \in Names : StartRename(p, old, new, NoPre)
    \/ RenameFind(p)
    \/ RenameCheck(p)
    \/ RenameCreateCollection(p, FALSE)
    \/ RenameCollectionExists(p)
    \/ RenameMigrateRead(p, FALSE)
    \/ RenameUpdateOrg(p)
    \/ \E e \in Emails \cup {NoneVal} : RenameDropOld(p, e, NoneVal, FALSE)
    \/ RenameFindAdmin(p)
    \/ RenameCredCheck(p)
    \/ RenameCredUpdate(p)
    \/ RenameGet(p)
    \/ RenameCompensate(p, FALSE)
    \/ \E n \in Names : StartDelete(p, n, NoPre)
    \/ DeleteFind(p)
    \/ \E a \in {0} \cup {x.id : x \in admins} : DeleteAuthorize(p, a)
    \/ DeleteDropCollection(p, FALSE)
    \/ DeleteAdmins(p)
    \/ DeleteOrg(p)

\* a step of worker p's direct call of AdminService
Accounts(p) ==
    \/ \E o \in {x.id : x \in orgs} : StartCreateAccount(p, o, NoPre)
    \/ \E e \in Emails : CreateAccountCheck(p, e)
    \/ CreateAccountInsert(p, "p1")
    \/ \E a \in {x.id : x \in admins} : StartUpdateCredentials(p, a, NoPre)
    \/ \E e \in Emails \cup {NoneVal} : UpdateCredentialsCheck(p, e)
    \/ \E w \in {NoneVal, "p2"} : UpdateCredentialsWrite(p, w)

\* two workers race one request each from a provisioned store, each store call a step
NextConc == \E p \in Procs : Lifecycle(p)

SpecConc == InitConc /\ [][NextConc]_vars

\* as SpecConc, the requests including direct calls of AdminService
NextAccounts == \E p \in Procs : Lifecycle(p) \/ Accounts(p)

SpecAccounts == InitConc /\ [][NextAccounts]_vars

\* ------------------------------------------------------------------ interrupted delete
\* the process serving a delete dies after drop_collection or after
\* delete_admins_by_organization, before delete_one; its locals are lost and the
\* restarted worker is idle
DeleteCrash(p) ==
    /\ op[p].kind = "delete"
    /\ pc[p] \in {"d_admins", "d_org"}
    /\ pc' = [pc EXCEPT ![p] = "idle"]
    /\ op' = [op EXCEPT ![p] = NoOp]
    /\ res' = [res EXCEPT ![p] = NoRes]
    /\ pre' = [pre EXCEPT ![p] = NoPre]
    /\ UNCHANGED <<orgs, admins, colls, tokens, expired>>

\* one request at a time, no store call failing, a delete possibly interrupted
NextCrash ==
    \/ Create(1, {FALSE})
    \/ Rename(1, {FALSE})
    \/ Delete(1, {FALSE})
    \/ Return(1)
    \/ (Steady /\ Tenant)
    \/ DeleteCrash(1)

SpecCrash == Init /\ [][NextCrash]_vars

\* ------------------------------------------------------------------ name codec alone
\* the characters of the names given to the codec: a capital, a small letter, a digit,
\* the two separators, an underscore and a character that is dropped
CodecChars == {"A", "a", "1", "-", " ", "_", "!"}
CodecNames == UNION {[1..n -> CodecChars] : n \in 0..MaxLen}

\* DatabaseService.generate_collection_name(org_name) called on its own
DeriveCollectionName(p, n, snap) ==
    /\ pc[p] = "idle"
    /\ pc' = [pc EXCEPT ![p] = "done"]
    /\ op' = [op EXCEPT ![p] = [NoOp EXCEPT !.kind = "derive", !.name = n,
                                            !.newName = sanitize_org_name(n),
                                            !.coll = generate_collection_name(n)]]
    /\ pre' = [pre EXCEPT ![p] = snap]
    /\ UNCHANGED <<orgs, admins, colls, res, tokens, expired>>

NextCodec ==
    \/ \E n \in CodecNames : DeriveCollectionName(1, n, Snapshot)
    \/ Return(1)

SpecCodec == InitConc /\ [][NextCodec]_vars

\* ------------------------------------------------------------------ AdminService alone
\* update_admin_credentials called with its three arguments
StartUpdateCredentialsWith(p, a, w, snap) ==
    Invoke(p, [NoOp EXCEPT !.kind = "updateCredentials", !.reqAdmin = a, !.pw = w],
           "k_check", snap)

\* a step of worker p's create_admin or update_admin_credentials
Directory(p) ==
    \/ \E o \in {x.id : x \in orgs} : StartCreateAccount(p, o, Snapshot)
    \/ \E e \in Emails : CreateAccountCheck(p, e)
    \/ \E w \in Passwords : CreateAccountInsert(p, w)
    \/ \E a \in {x.id : x \in admins}, w \in Passwords \cup {NoneVal} :
          StartUpdateCredentialsWith(p, a, w, Snapshot)
    \/ \E e \in Emails \cup {NoneVal} : UpdateCredentialsCheck(p, e)
    \/ UpdateCredentialsWrite(p, op[p].pw)

\* one AdminService call at a time on a provisioned store
NextDirectory ==
    \/ Directory(1)
    \/ Return(1)

SpecDirectory == InitConc /\ [][NextDirectory]_vars

\* ------------------------------------------------------------------ authenticated use
\* one request at a time, no store call failing, with logins and token-bearing requests
NextAuth ==
    \/ Lifecycle(1)
    \/ Auth(1)
    \/ Return(1)
    \/ (Steady /\ \E t \in tokens : Expire(t))

SpecAuth == Init /\ [][NextAuth]_vars

\* ------------------------------------------------------------------ properties
Returned(p, k) == pc[p] = "done" /\ op[p].kind = k

\* the store is as it was when worker p's request was invoked
StoreUnchanged(p) ==
    /\ orgs = pre[p].orgs
    /\ admins = pre[p].admins
    /\ colls = pre[p].colls

\* the organization that the request of worker p named, as it was at the call
PreOrg(p) == FirstById(OrgsNamed(pre[p].orgs, op[p].name))

ProvisioningFaults == {"create_collection", "insert_admin"}

\* C1: create(n, ...) while an organization named n exists makes no store write at any
\* of its steps and, when it returns, has failed with DuplicateOrganization with exactly
\* one record named n persisting.
C1_DuplicateCreateRejected ==
    \A p \in Procs :
        (op[p].kind = "create" /\ OrgsNamed(pre[p].orgs, op[p].name) # {}) =>
            /\ pc[p] \in {"c_check", "done"}
            /\ StoreUnchanged(p)
            /\ Cardinality(OrgsNamed(orgs, op[p].name)) = 1
            /\ (pc[p] = "done" => res[p].status = "DuplicateOrganization")

C1_Witness ==
    \E p \in Procs :
        /\ Returned(p, "create")
        /\ OrgsNamed(pre[p].orgs, op[p].name) # {}
        /\ res[p].status = "DuplicateOrganization"

\* a create whose collection creation or admin creation failed has returned
ProvisioningFailedIn(p) ==
    /\ Returned(p, "create")
    /\ \/ op[p].faults \cap ProvisioningFaults # {}
       \/ op[p].raised \cap {"DuplicateEmail", "DuplicateEmailKey"} # {}
    /\ op[p].org # NoOrg

\* C2 as stated: after a create whose collection or admin creation failed, the call has
\* raised ProvisioningFailed, no record named n exists, no admin carries the inserted
\* organization id and the collection is absent.
C2_RollbackDropsCollection ==
    \A p \in Procs :
        ProvisioningFailedIn(p) =>
            /\ res[p].status = "ProvisioningFailed"
            /\ OrgsNamed(orgs, op[p].name) = {}
            /\ AdminsOfOrg(admins, op[p].org.id) = {}
            /\ ~CollExists(colls, op[p].coll)

\* C2 amended: as above, but the collection is absent only if the best-effort drop of
\* the rollback did not itself fail.
C2_RollbackBestEffort ==
    \A p \in Procs :
        ProvisioningFailedIn(p) =>
            /\ res[p].status = "ProvisioningFailed"
            /\ OrgsNamed(orgs, op[p].name) = {}
            /\ AdminsOfOrg(admins, op[p].org.id) = {}
            /\ ("drop" \notin op[p].faults => ~CollExists(colls, op[p].coll))

C2_Witness ==
    \E p \in Procs :
        /\ ProvisioningFailedIn(p)
        /\ "DuplicateEmail" \in op[p].raised
        /\ "drop" \notin op[p].faults
        /\ ~CollExists(colls, op[p].coll)

\* C3: after a rename(old, new) with new # old and new unused that succeeded with no store
\* call failing, every document of the old collection is in the organization's
\* collection, the old collection is absent, get(old) finds nothing and get(new) is the
\* same organization under its new name.
C3_RenameMigratesDocuments ==
    \A p \in Procs :
        ( /\ Returned(p, "rename")
          /\ res[p].status = "ok"
          /\ op[p].faults = {}
          /\ op[p].name # op[p].newName
          /\ OrgsNamed(pre[p].orgs, op[p].name) # {}
          /\ OrgsNamed(pre[p].orgs, op[p].newName) = {} ) =>
            /\ get_organization(orgs, admins, op[p].name) = NoView
            /\ get_organization(orgs, admins, op[p].newName).id = PreOrg(p).id
            /\ get_organization(orgs, admins, op[p].newName).name = op[p].newName
            /\ ~CollExists(colls, PreOrg(p).coll)
            /\ CollDocs(pre[p].colls, PreOrg(p).coll) \subseteq
                   CollDocs(colls, get_organization(orgs, admins, op[p].newName).coll)

\* C4: a rename in which creating the new collection or copying the documents failed
\* has raised UpdateFailed, dropped the new collection (unless that drop failed too) and
\* left the organization record and the old collection with its documents as they were.
C4_RenameFailureCompensated ==
    \A p \in Procs :
        ( /\ Returned(p, "rename")
          /\ op[p].faults \cap {"create_collection", "migrate_read", "migrate_write"} # {} ) =>
            /\ res[p].status = "UpdateFailed"
            /\ PreOrg(p) \in orgs
            /\ CollExists(pre[p].colls, PreOrg(p).coll) =>
                   /\ CollExists(colls, PreOrg(p).coll)
                   /\ colls[PreOrg(p).coll] = pre[p].colls[PreOrg(p).coll]
            /\ (op[p].coll # PreOrg(p).coll /\ "drop_new" \notin op[p].faults) =>
                   ~CollExists(colls, op[p].coll)

\* C5: a delete whose requesting admin does not resolve, or belongs to another
\* organization, fails with Unauthorized and leaves the store as it was.
C5_UnauthorizedDeleteRejected ==
    \A p \in Procs :
        ( /\ Returned(p, "delete")
          /\ OrgsNamed(pre[p].orgs, op[p].name) # {}
          /\ LET admin == get_admin_by_id(pre[p].admins, op[p].reqAdmin)
             IN  admin = NoAdmin \/ admin.org # PreOrg(p).id ) =>
            /\ res[p].status = "Unauthorized"
            /\ StoreUnchanged(p)

C5_Witness ==
    \E p \in Procs :
        /\ Returned(p, "delete")
        /\ res[p].status = "Unauthorized"
        /\ get_admin_by_id(pre[p].admins, op[p].reqAdmin) # NoAdmin
        /\ AdminsOfOrg(admins, PreOrg(p).id) # {}
        /\ CollExists(colls, PreOrg(p).coll)

DeleteSucceeded(p) == Returned(p, "delete") /\ res[p].status = "ok"

\* C6 as stated: after a successful delete no record named n, no admin of that
\* organization and no backing collection remain; a delete of a name that no record
\* carries fails with NotFound.
C6_DeleteRemovesCollection ==
    \A p \in Procs :
        /\ DeleteSucceeded(p) =>
              /\ res[p].flag
              /\ OrgsNamed(orgs, op[p].name) = {}
              /\ AdminsOfOrg(admins, op[p].org.id) = {}
              /\ ~CollExists(colls, op[p].org.coll)
        /\ (Returned(p, "delete") /\ OrgsNamed(pre[p].orgs, op[p].name) = {}) =>
              res[p].status = "NotFound" /\ StoreUnchanged(p)

\* C6 amended: as above, but the backing collection is absent only if its best-effort
\* drop did not fail.
C6_DeleteBestEffortDrop ==
    \A p \in Procs :
        /\ DeleteSucceeded(p) =>
              /\ res[p].flag
              /\ OrgsNamed(orgs, op[p].name) = {}
              /\ AdminsOfOrg(admins, op[p].org.id) = {}
              /\ ("drop" \notin op[p].faults => ~CollExists(colls, op[p].org.coll))
        /\ (Returned(p, "delete") /\ OrgsNamed(pre[p].orgs, op[p].name) = {}) =>
              res[p].status = "NotFound" /\ StoreUnchanged(p)

C6_Witness ==
    \E p \in Procs :
        /\ DeleteSucceeded(p)
        /\ "drop" \notin op[p].faults
        /\ CollExists(pre[p].colls, op[p].org.coll)
        /\ AdminsOfOrg(pre[p].admins, op[p].org.id) # {}

\* C7: under every interleaving of the store calls of create, rename and delete, no two
\* organization records have the same name.
C7_UniqueOrganizationNames ==
    \A o1 \in orgs, o2 \in orgs : o1.name = o2.name => o1 = o2

\* both racing requests passed their existence check; the index rejected the later write
C7_Witness ==
    /\ Cardinality(orgs) >= 1
    /\ \E p \in Procs : pc[p] = "done" /\ "DuplicateNameKey" \in op[p].raised

\* C8: under every sequence and interleaving of createAccount, updateCredentials, create,
\* rename and delete, no two admin accounts hold the same email.
C8_UniqueAdminEmails ==
    \A a1 \in admins, a2 \in admins : a1.email = a2.email => a1 = a2

C8_Witness ==
    /\ Cardinality(admins) >= 2
    /\ \E p \in Procs : pc[p] = "done" /\ "DuplicateEmailKey" \in op[p].raised

\* no request is being served
Quiescent == \A p \in Procs : pc[p] \in {"idle", "done"}

C10_CollectionIdDerivedFromName ==
    /\ \A o \in orgs : o.coll = generate_collection_name(o.name)
    /\ \A p \in Procs :
          /\ (Returned(p, "create") /\ res[p].status = "ok") =>
                get_organization(orgs, admins, op[p].name).coll =
                    generate_collection_name(op[p].name)
          /\ (Returned(p, "rename") /\ res[p].status = "ok") =>
                get_organization(orgs, admins, op[p].newName).coll =
                    generate_collection_name(op[p].newName)

C10_Witness ==
    \E p \in Procs :
        /\ Returned(p, "rename")
        /\ res[p].status = "ok"
        /\ op[p].name # op[p].newName
        /\ PreOrg(p).coll # generate_collection_name(op[p].newName)
        /\ get_organization(orgs, admins, op[p].newName).coll = <<"o", "r", "g", "_", "c">>

\* C11: a create or rename whose derived collection id is that of another organization
\* is rejected, so whenever no request is in progress no two organization records share
\* a collection id.
C11_DistinctCollectionIds ==
    Quiescent => \A o1 \in orgs, o2 \in orgs : o1.coll = o2.coll => o1 = o2

\* C12: a rename(old, new) fails fast.  If no organization is named old it makes no
\* store write and fails with NotFound; if old exists, new # old and an organization is
\* named new, it makes no store write and fails with DuplicateOrganization.
C12_RenameFailsFast ==
    \A p \in Procs :
        op[p].kind = "rename" =>
            /\ (OrgsNamed(pre[p].orgs, op[p].name) = {} =>
                    /\ pc[p] \in {"u_find", "done"}
                    /\ StoreUnchanged(p)
                    /\ (pc[p] = "done" => res[p].status = "NotFound"))
            /\ ( ( /\ OrgsNamed(pre[p].orgs, op[p].name) # {}
                   /\ op[p].newName # op[p].name
                   /\ OrgsNamed(pre[p].orgs, op[p].newName) # {} ) =>
                    /\ pc[p] \in {"u_find", "u_check", "done"}
                    /\ StoreUnchanged(p)
                    /\ (pc[p] = "done" => res[p].status = "DuplicateOrganization"))

C12_Witness ==
    \E p \in Procs :
        /\ Returned(p, "rename")
        /\ res[p].status = "DuplicateOrganization"
        /\ OrgsNamed(pre[p].orgs, op[p].name) # {}
        /\ op[p].newName # op[p].name
        /\ OrgsNamed(pre[p].orgs, op[p].newName) # {}

\* C13: a record left behind by a delete that was interrupted after its collection drop
\* or after the removal of its admin accounts is re-deletable: whenever no request is in
\* progress, every organization record has an admin id with which delete_organization
\* passes its ownership test (after which the remaining steps remove the record).
C13_DanglingRecordRedeletable ==
    Steady =>
        \A o \in orgs : \E a \in {x.id : x \in admins} :
            ~NotOwningAdmin(get_admin_by_id(admins, a), o)

\* C14: a login that has returned failed with InvalidCredentials (and no token) when no
\* admin account has the email or the password does not verify against the stored hash;
\* otherwise it returned a token that decodes to the admin id, organization id and email
\* of the account holding that email.
C14_LoginIssuesAdminToken ==
    \A p \in Procs :
        Returned(p, "login") =>
            LET held == AdminsWithEmail(admins, op[p].email)
                matching == {a \in held : a.pw = hash_password(op[p].pw)}
            IN  IF matching = {}
                THEN res[p].status = "InvalidCredentials" /\ res[p].token = NoToken
                ELSE /\ res[p].status = "ok"
                     /\ res[p].token \in tokens
                     /\ \E a \in matching :
                          LET payload == decode_token(res[p].token, expired)
                          IN  /\ ObjectId(payload.admin_id) = a.id
                              /\ ObjectId(payload.organization_id) = a.org
                              /\ payload.email = a.email

C14_Witness ==
    \E p \in Procs :
        /\ Returned(p, "login")
        /\ res[p].status = "ok"
        /\ \E o \in orgs : o.id = ObjectId(res[p].token.payload.organization_id)
        /\ \E q \in tokens : q # res[p].token

\* a login with the right email and a wrong password has been refused
C14_WrongPasswordRefused ==
    \E p \in Procs :
        /\ Returned(p, "login")
        /\ res[p].status = "InvalidCredentials"
        /\ AdminsWithEmail(admins, op[p].email) # {}

\* the organization whose admin the token was issued to has been deleted
OrganizationGone(t) ==
    \A o \in orgs : o.id # ObjectId(t.payload.organization_id)

\* the admin account that the token was issued to, while it exists
LiveAccount(t) == AdminsWithId(admins, ObjectId(t.payload.admin_id))

\* C15 as stated: once the organization has been deleted, resolving a token issued
\* earlier to its admin fails with UnknownActor at every later time; while the admin
\* account exists, resolving a valid token returns that live account.
C15_DeletedAdminTokenUnknown ==
    \A p \in Procs :
        (Returned(p, "resolve") /\ op[p].token \in tokens) =>
            /\ (OrganizationGone(op[p].token) => res[p].status = "UnknownActor")
            /\ ((LiveAccount(op[p].token) # {} /\ op[p].token \notin expired) =>
                    res[p].status = "ok" /\ res[p].actor \in LiveAccount(op[p].token))

\* C15 amended: once the organization has been deleted, resolving a token issued
\* earlier to its admin never yields an actor: it fails with UnknownActor while the
\* token has not expired and with InvalidToken once it has; while the admin account
\* exists, resolving an unexpired token returns that live account.
C15_DeletedAdminTokenNeverResolves ==
    \A p \in Procs :
        (Returned(p, "resolve") /\ op[p].token \in tokens) =>
            /\ (OrganizationGone(op[p].token) =>
                    /\ res[p].actor = NoAdmin
                    /\ res[p].status =
                          IF op[p].token \in expired THEN "InvalidToken" ELSE "UnknownActor")
            /\ ((LiveAccount(op[p].token) # {} /\ op[p].token \notin expired) =>
                    res[p].status = "ok" /\ res[p].actor \in LiveAccount(op[p].token))

C15_Witness ==
    \E p \in Procs :
        /\ Returned(p, "resolve")
        /\ op[p].token \in tokens \ expired
        /\ OrganizationGone(op[p].token)
        /\ res[p].status = "UnknownActor"
        /\ orgs # {}

\* C16: for an actor resolved from a login token, authorization for an organization id
\* succeeds exactly when that id is the actor's organization id, fails with Forbidden
\* otherwise, and the one id it succeeds for is the one embedded in the token.
C16_AuthorizedForOwnOrganizationOnly ==
    \A p \in Procs :
        (Returned(p, "authorize") /\ op[p].admin # NoAdmin) =>
            /\ op[p].token \in tokens
            /\ res[p].status \in {"ok", "Forbidden"}
            /\ (res[p].status = "ok" <=> op[p].admin.org = op[p].reqOrg)
            /\ (res[p].status = "ok" <=>
                    op[p].reqOrg = ObjectId(op[p].token.payload.organization_id))

C16_Witness ==
    \E p \in Procs :
        /\ Returned(p, "authorize")
        /\ res[p].status = "ok"
        /\ res[p].actor.org = op[p].reqOrg
        /\ Cardinality(orgs) = 2

\* an actor asking for another organization has been refused
C16_OtherOrganizationForbidden ==
    \E p \in Procs :
        /\ Returned(p, "authorize")
        /\ res[p].status = "Forbidden"
        /\ op[p].admin # NoAdmin

\* C17: an updateCredentials whose new email is held by a different account fails with
\* DuplicateEmail and changes no account, also when a new password is given; a new email
\* equal to the account's own is no duplicate and the update is applied.
C17_UpdateCredentialsDuplicateEmail ==
    \A p \in Procs :
        (Returned(p, "updateCredentials") /\ op[p].email # NoneVal) =>
            LET others == {a \in pre[p].admins :
                              a.email = op[p].email /\ a.id # op[p].reqAdmin}
                own == {a \in pre[p].admins :
                              a.email = op[p].email /\ a.id = op[p].reqAdmin}
            IN  /\ (others # {} =>
                        res[p].status = "DuplicateEmail" /\ admins = pre[p].admins)
                /\ ((own # {} /\ others = {}) =>
                        /\ res[p].status = "ok"
                        /\ admins = {IF a \in own
                                     THEN [a EXCEPT !.pw = IF op[p].pw = NoneVal THEN @
                                                           ELSE hash_password(op[p].pw)]
                                     ELSE a : a \in pre[p].admins})

C17_Witness ==
    \E p \in Procs :
        /\ Returned(p, "updateCredentials")
        /\ res[p].status = "DuplicateEmail"
        /\ op[p].pw # NoneVal
        /\ \E a \in pre[p].admins : a.email = op[p].email /\ a.id # op[p].reqAdmin

\* an update to the account's own email with a new password has been applied
C17_OwnEmailAccepted ==
    \E p \in Procs :
        /\ Returned(p, "updateCredentials")
        /\ res[p].status = "ok"
        /\ op[p].pw = "p2"
        /\ \E a \in pre[p].admins : a.email = op[p].email /\ a.id = op[p].reqAdmin
        /\ admins # pre[p].admins

\* C18: deriving a collection id reads and writes no state and depends on the name only;
\* sanitizing is idempotent, so the id derived from a sanitized name is the id derived
\* from the name.
C18_DeriveDeterministicIdempotent ==
    \A p \in Procs :
        Returned(p, "derive") =>
            /\ StoreUnchanged(p)
            /\ op[p].coll = <<"o", "r", "g", "_">> \o op[p].newName
            /\ generate_collection_name(op[p].name) = op[p].coll
            /\ sanitize_org_name(op[p].newName) = op[p].newName
            /\ generate_collection_name(op[p].newName) = op[p].coll

C18_Witness ==
    \E p \in Procs :
        /\ Returned(p, "derive")
        /\ op[p].name = <<"A", "-", "a">>
        /\ op[p].coll = <<"o", "r", "g", "_", "a", "_", "a">>
        /\ orgs # {}

\* C19: when two concurrent creates of one name have both returned, at most one has
\* reported success, and if one has, exactly one record of that name persists, it is
\* the successful call's, and that call's collection and admin account exist: the
\* failure handling of the other call has removed nothing of it.
C19_ConcurrentCreateOneWinner ==
    ( /\ \A p \in Procs : Returned(p, "create")
      /\ op[1].name = op[2].name ) =>
        LET winners == {p \in Procs : res[p].status = "ok"}
        IN  /\ Cardinality(winners) <= 1
            /\ \A p \in winners :
                  /\ OrgsNamed(orgs, op[p].name) = OrgsWithId(orgs, res[p].org.id)
                  /\ Cardinality(OrgsNamed(orgs, op[p].name)) = 1
                  /\ CollExists(colls, res[p].org.coll)
                  /\ \E a \in admins : a.id = res[p].org.admin_id /\ a.org = res[p].org.id

\* C20: whenever no request is in progress, the collection named by every organization
\* record's collection id exists.
C20_RecordCollectionExists ==
    Quiescent => \A o \in orgs : CollExists(colls, o.coll)

\* C21: a rename whose new name derives the collection id the organization already has
\* preserves the collection: when the call has returned, the collection exists and
\* holds exactly the documents it held at the call.
C21_SameCollectionRenamePreserves ==
    \A p \in Procs :
        ( /\ Returned(p, "rename")
          /\ OrgsNamed(pre[p].orgs, op[p].name) # {}
          /\ generate_collection_name(op[p].newName) = PreOrg(p).coll
          /\ CollExists(pre[p].colls, PreOrg(p).coll) ) =>
            /\ CollExists(colls, PreOrg(p).coll)
            /\ CollDocs(colls, PreOrg(p).coll) = CollDocs(pre[p].colls, PreOrg(p).coll)

\* C22: whenever a rename has returned an error, for whatever reason, the organization
\* record still has the name and collection id it had at the call, and that collection
\* still exists with all the documents it held.
C22_FailedRenameLeavesState ==
    \A p \in Procs :
        ( /\ Returned(p, "rename")
          /\ res[p].status # "ok"
          /\ OrgsNamed(pre[p].orgs, op[p].name) # {}
          /\ CollExists(pre[p].colls, PreOrg(p).coll) ) =>
            /\ PreOrg(p) \in orgs
            /\ CollExists(colls, PreOrg(p).coll)
            /\ CollDocs(pre[p].colls, PreOrg(p).coll) \subseteq CollDocs(colls, PreOrg(p).coll)

\* the organizations other than the one named in worker p's request, as they were at
\* the call
OtherOrgs(p) ==
    {o \in pre[p].orgs : o.name # op[p].name /\ o.name # op[p].newName}

\* C23: a create, rename or delete for one organization, succeeding or failing, never
\* drops or modifies the collection, the admin accounts or the record of a different
\* organization that existed at the call.
C23_OtherOrganizationsUntouched ==
    \A p \in Procs :
        (op[p].kind \in {"create", "rename", "delete"}) =>
            \A o \in OtherOrgs(p) :
                /\ o \in orgs
                /\ AdminsOfOrg(admins, o.id) = AdminsOfOrg(pre[p].admins, o.id)
                /\ (CollExists(pre[p].colls, o.coll) =>
                        /\ CollExists(colls, o.coll)
                        /\ CollDocs(colls, o.coll) = CollDocs(pre[p].colls, o.coll))

\* C24: a delete drops the collection, then removes the admin accounts, then removes the
\* record.  At every intermediate state of a delete the record exists; before the drop
\* the accounts are untouched; after the drop the collection is gone (unless the drop
\* failed) while the accounts are still there; before the record is removed the
\* accounts are gone.  So a collection or an account of the organization never exists
\* there without its record.
C24_DeleteOrder ==
    \A p \in Procs :
        (op[p].kind = "delete" /\ pc[p] \in {"d_auth", "d_drop", "d_admins", "d_org"}) =>
            LET o == op[p].org
            IN  /\ o \in orgs
                /\ (pc[p] \in {"d_auth", "d_drop"} => StoreUnchanged(p))
                /\ (pc[p] = "d_admins" =>
                        /\ ("drop" \notin op[p].faults => ~CollExists(colls, o.coll))
                        /\ admins = pre[p].admins)
                /\ (pc[p] = "d_org" =>
                        /\ ("drop" \notin op[p].faults => ~CollExists(colls, o.coll))
                        /\ AdminsOfOrg(admins, o.id) = {})
                /\ ((CollExists(colls, o.coll) \/ AdminsOfOrg(admins, o.id) # {}) =>
                        OrgsWithId(orgs, o.id) # {})

C24_Witness ==
    \E p \in Procs :
        /\ op[p].kind = "delete"
        /\ pc[p] = "d_org"
        /\ op[p].org \in orgs
        /\ CollDocs(pre[p].colls, op[p].org.coll) # {}
        /\ ~CollExists(colls, op[p].org.coll)
        /\ AdminsOfOrg(pre[p].admins, op[p].org.id) # {}
        /\ AdminsOfOrg(admins, op[p].org.id) = {}

\* C25: a create inserts the record, then creates the collection, then creates the admin
\* account.  After the insert the record exists and no account of it does; once the
\* collection step has succeeded the collection exists too; an admin account of the new
\* organization exists only if both its record and its collection exist.
C25_CreateOrder ==
    \A p \in Procs :
        (op[p].kind = "create" /\ op[p].org # NoOrg) =>
            LET o == op[p].org
            IN  /\ (pc[p] = "c_coll" =>
                        o \in orgs /\ AdminsOfOrg(admins, o.id) = {})
                /\ (pc[p] \in {"c_admin_check", "c_admin_insert"} =>
                        /\ o \in orgs
                        /\ CollExists(colls, o.coll)
                        /\ AdminsOfOrg(admins, o.id) = {})
                /\ (AdminsOfOrg(admins, o.id) # {} =>
                        o \in orgs /\ CollExists(colls, o.coll))

C25_Witness ==
    \E p \in Procs :
        /\ Returned(p, "create")
        /\ res[p].status = "ok"
        /\ AdminsOfOrg(admins, op[p].org.id) # {}
        /\ ~CollExists(pre[p].colls, op[p].org.coll)
        /\ CollExists(colls, op[p].org.coll)
        /\ op[p].org \in orgs

\* the rename of worker p has left the organization under its new name and new
\* collection id, the new collection holding what it held at the call and the documents
\* the migration inserted: all those of the old collection, unless insert_many stopped
\* at a duplicate _id
RenamedWithDocuments(p) ==
    \E o \in orgs :
        /\ o.id = op[p].org.id
        /\ o.name = op[p].newName
        /\ o.coll = generate_collection_name(op[p].newName)
        /\ CollExists(colls, o.coll)
        /\ CollDocs(pre[p].colls, o.coll) \subseteq CollDocs(colls, o.coll)
        /\ "BulkWrite" \notin op[p].raised =>
               CollDocs(pre[p].colls, op[p].org.coll) \subseteq CollDocs(colls, o.coll)

C27_RenameAppliesCredentials ==
    \A p \in Procs :
        ( /\ Returned(p, "rename")
          /\ res[p].status = "ok"
          /\ op[p].email # NoneVal
          /\ op[p].pw # NoneVal ) =>
            \E a0 \in AdminsOfOrg(pre[p].admins, op[p].org.id) :
                LET a1 == [id |-> a0.id, email |-> op[p].email,
                           pw |-> hash_password(op[p].pw), org |-> a0.org]
                IN  /\ AdminsOfOrg(admins, op[p].org.id) = {a1}
                    /\ authenticate_admin(admins, op[p].email, op[p].pw) = a1
                    /\ (a0.email # op[p].email =>
                            \A w \in Passwords :
                                authenticate_admin(admins, a0.email, w) = NoAdmin)

C27_Witness ==
    \E p \in Procs :
        /\ Returned(p, "rename")
        /\ res[p].status = "ok"
        /\ op[p].name # op[p].newName
        /\ op[p].pw = "p2"
        /\ \E a0 \in AdminsOfOrg(pre[p].admins, op[p].org.id) :
              /\ a0.email # op[p].email
              /\ a0.pw = hash_password("p1")
              /\ op[p].email # NoneVal
              /\ authenticate_admin(admins, op[p].email, "p2").id = a0.id

\* C28: whenever no request is in progress, the organization id of every admin account
\* is the id of an existing organization record; and no step changes the organization
\* id of an admin account.
C28_NoOrphanedAdmins ==
    /\ [](Quiescent => \A a \in admins : OrgsWithId(orgs, a.org) # {})
    /\ [][\A a \in admins : \A b \in admins' : a.id = b.id => a.org = b.org]_vars

C28_Witness ==
    /\ Quiescent
    /\ Cardinality(admins) = 1
    /\ Cardinality(orgs) = 1
    /\ \E p \in Procs : Returned(p, "delete") /\ res[p].status = "ok"

\* C29: once the concurrent requests have all returned, every tenant collection is the
\* collection of some organization record and every organization record's collection
\* exists.
C29_CollectionsOwnedAfterRace ==
    Quiescent =>
        /\ \A c \in DOMAIN colls : \E o \in orgs : o.coll = c
        /\ \A o \in orgs : CollExists(colls, o.coll)

\* C30: an updateCredentials with neither a new email nor a new password writes nothing
\* (no account changes and no "updated_at" is set) and returns false.
C30_EmptyUpdateIsNoOp ==
    \A p \in Procs :
        ( /\ Returned(p, "updateCredentials")
          /\ op[p].email = NoneVal
          /\ op[p].pw = NoneVal ) =>
            /\ res[p].status = "ok"
            /\ res[p].flag = FALSE
            /\ admins = pre[p].admins
            /\ op[p].stamped = {}

C30_Witness ==
    \E p \in Procs :
        /\ Returned(p, "updateCredentials")
        /\ op[p].email = NoneVal
        /\ op[p].pw = NoneVal
        /\ AdminsWithId(admins, op[p].reqAdmin) # {}
        /\ res[p].flag = FALSE
        /\ Cardinality(admins) = 2

\* C31: the collection id derived from any name is "org_" followed by characters of
\* [a-z0-9_] only, the part after the prefix neither beginning nor ending with an
\* underscore nor holding two underscores in a row; a name with no letter and no digit
\* yields exactly "org_".
C31_CollectionNameShape ==
    \A p \in Procs :
        Returned(p, "derive") =>
            LET id   == op[p].coll
                body == SubSeq(id, 5, Len(id))
            IN  /\ Len(id) >= 4
                /\ SubSeq(id, 1, 4) = <<"o", "r", "g", "_">>
                /\ \A i \in 1..Len(body) : body[i] \in Allowed
                /\ body # <<>> => body[1] # "_" /\ body[Len(body)] # "_"
                /\ \A i \in 1..(Len(body) - 1) : ~(body[i] = "_" /\ body[i + 1] = "_")
                /\ (\A i \in 1..Len(op[p].name) :
                        Lower(op[p].name[i]) \notin Allowed \ {"_"}) =>
                            id = <<"o", "r", "g", "_">>

C31_Witness ==
    \E p \in Procs :
        /\ Returned(p, "derive")
        /\ op[p].name = <<"-", "_", "A">>
        /\ op[p].coll = <<"o", "r", "g", "_", "a">>

====
